---- MODULE Spec2Model ----
(***************************************************************************)
(* The multi-agent orchestrator dashboard of dkmes: the peer registry      *)
(* (agentConfigs), the aggregation rounds (refreshAll), the auto-refresh   *)
(* scheduler (the useEffect of Orchestrator.tsx) and the mesh topology     *)
(* derived from a snapshot (AgentNetworkGraph).                            *)
(*                                                                         *)
(* A snapshot is the triple agents / exchangesByPort / activeTasks that a  *)
(* round sets after its Promise.all join; the state updates that follow    *)
(* the join are batched into one render, and the graph's edge effect runs  *)
(* with that render.  Timestamps, colours and layout are left out.         *)
(***************************************************************************)
EXTENDS Integers, Sequences, FiniteSets, TLC

(***************************************************************************)
(* Bounds of the model.                                                    *)
(***************************************************************************)
\* rounds that may be in flight together (the code has no limit)
MaxInFlight == 2
\* exchange records the peers hold together in the topology inputs
MaxRecords == 2

(***************************************************************************)
(* Data.                                                                   *)
(***************************************************************************)
\* variant: the left operand is taken also when it is empty
OrElse_always(a, b) == a

\* JavaScript's a || b on strings: the empty (or missing) string is falsy
OrElse(a, b) == IF a = "" THEN b ELSE a

\* the value of a missing optional field
Undefined == "undefined"

DEFAULT_AGENT_CONFIGS ==
  << [port |-> 8000, fallbackId |-> "dkmes-alpha",
      fallbackName |-> "DKMES Alpha", fallbackDomain |-> "knowledge-management"],
     [port |-> 8001, fallbackId |-> "agent-beta-aiml",
      fallbackName |-> "AI/ML Research Agent", fallbackDomain |-> "artificial-intelligence"],
     [port |-> 8002, fallbackId |-> "agent-gamma-analytics",
      fallbackName |-> "CVDT Chatbot Agent", fallbackDomain |-> "data-analytics"] >>

\* variant: every added descriptor gets the same id
NewAgentConfig_fixedId(port) ==
  [port |-> port, fallbackId |-> "agent-new",
   fallbackName |-> "Agent :" \o ToString(port), fallbackDomain |-> "unknown"]

\* the descriptor addAgent builds for a port
NewAgentConfig(port) ==
  [port |-> port, fallbackId |-> "agent-" \o ToString(port),
   fallbackName |-> "Agent :" \o ToString(port), fallbackDomain |-> "unknown"]

Ports(configs) == {configs[k].port : k \in DOMAIN configs}

(***************************************************************************)
(* parseInt on the text of the port field, a sequence of characters:       *)
(* leading blanks are skipped, an optional sign is read, then the longest  *)
(* run of decimal digits; with no digit the result is NaN.  A number is    *)
(* a record: nan tells NaN from the integer n.                             *)
(***************************************************************************)
NaN == [nan |-> TRUE, n |-> 0]

Number(n) == [nan |-> FALSE, n |-> n]

Digits == <<"0", "1", "2", "3", "4", "5", "6", "7", "8", "9">>

IsDigit(c) == \E d \in DOMAIN Digits : Digits[d] = c

DigitValue(c) == (CHOOSE d \in DOMAIN Digits : Digits[d] = c) - 1

RECURSIVE SkipBlanks(_)
SkipBlanks(s) ==
  IF s # <<>> /\ Head(s) = " " THEN SkipBlanks(Tail(s)) ELSE s

RECURSIVE ParseDigits(_, _)
ParseDigits(s, acc) ==
  IF s # <<>> /\ IsDigit(Head(s))
  THEN ParseDigits(Tail(s), 10 * acc + DigitValue(Head(s)))
  ELSE acc

parseInt(text) ==
  LET s    == SkipBlanks(text)
      neg  == s # <<>> /\ Head(s) = "-"
      body == IF s # <<>> /\ Head(s) \in {"-", "+"} THEN Tail(s) ELSE s
  IN  IF body = <<>> \/ ~IsDigit(Head(body)) THEN NaN
      ELSE IF neg THEN Number(0 - ParseDigits(body, 0)) ELSE Number(ParseDigits(body, 0))

\* JavaScript truthiness of a number: NaN and 0 are falsy
Truthy(v) == ~v.nan /\ v.n # 0

(***************************************************************************)
(* The peers' answers.  An answer has a kind: "error" (fetch rejects),      *)
(* "status" (response.ok is false), "badjson" (response.json() rejects) or *)
(* "ok"; a health answer has the identity fields of its body, "" when a    *)
(* field is missing.  With kind "pending" the peer has not answered: the   *)
(* fetch has neither resolved nor rejected.                                *)
(***************************************************************************)
HealthFail == [kind |-> "error", agent_id |-> "", agent_name |-> "", domain |-> ""]

HealthOk(id) == [kind |-> "ok", agent_id |-> id, agent_name |-> "", domain |-> ""]

\* a success whose body has the three identity fields, "" for a missing one
HealthReport(id, name, domain) ==
  [kind |-> "ok", agent_id |-> id, agent_name |-> name, domain |-> domain]

\* a non-success status; the body it carries is not read
HealthStatus(id) == [kind |-> "status", agent_id |-> id, agent_name |-> "", domain |-> ""]

\* a success status with a body that response.json() rejects
HealthBadJson == [kind |-> "badjson", agent_id |-> "", agent_name |-> "", domain |-> ""]

\* the peer accepts the request and sends nothing back
HealthPending == [kind |-> "pending", agent_id |-> "", agent_name |-> "", domain |-> ""]

\* variant: the body is read without looking at response.ok
fetchAgentStatus_trustsBody(config, resp) ==
  IF resp.kind \in {"ok", "status"}
  THEN [agent_id |-> OrElse(resp.agent_id, config.fallbackId),
        name     |-> OrElse(resp.agent_name, config.fallbackName),
        domain   |-> OrElse(resp.domain, config.fallbackDomain),
        port     |-> config.port,
        status   |-> "online"]
  ELSE [agent_id |-> config.fallbackId,
        name     |-> config.fallbackName,
        domain   |-> config.fallbackDomain,
        port     |-> config.port,
        status   |-> "offline"]

fetchAgentStatus(config, resp) ==
  IF resp.kind = "ok"
  THEN [agent_id |-> OrElse(resp.agent_id, config.fallbackId),
        name     |-> OrElse(resp.agent_name, config.fallbackName),
        domain   |-> OrElse(resp.domain, config.fallbackDomain),
        port     |-> config.port,
        status   |-> "online"]
  ELSE [agent_id |-> config.fallbackId,
        name     |-> config.fallbackName,
        domain   |-> config.fallbackDomain,
        port     |-> config.port,
        status   |-> "offline"]

\* a history answer: its kind and the exchanges of its body
HistoryFail == [kind |-> "error", exchanges |-> <<>>]

HistoryOk(window) == [kind |-> "ok", exchanges |-> window]

\* a non-success status; the body it carries is not read
HistoryStatus(window) == [kind |-> "status", exchanges |-> window]

\* a success status with a body that response.json() rejects
HistoryBadJson == [kind |-> "badjson", exchanges |-> <<>>]

\* the peer accepts the request and sends nothing back
HistoryPending == [kind |-> "pending", exchanges |-> <<>>]

\* variant: the body is read without looking at response.ok
fetchExchanges_trustsBody(port, resp) == [port |-> port, exchanges |-> resp.exchanges]

fetchExchanges(port, resp) ==
  IF resp.kind = "ok"
  THEN [port |-> port, exchanges |-> resp.exchanges]
  ELSE [port |-> port, exchanges |-> <<>>]

\* the task registry's answer: its kind and the tasks of its result
TasksFail == [kind |-> "error", tasks |-> <<>>]

TasksOk(tasks) == [kind |-> "ok", tasks |-> tasks]

\* a non-success status; the body it carries is not read
TasksStatus(tasks) == [kind |-> "status", tasks |-> tasks]

\* a success status with a body that response.json() rejects
TasksBadJson == [kind |-> "badjson", tasks |-> <<>>]

\* the task registry accepts the request and sends nothing back
TasksPending == [kind |-> "pending", tasks |-> <<>>]

\* variant: the body is read without looking at response.ok
fetchTasks_trustsBody(resp) == resp.tasks

fetchTasks(resp) == IF resp.kind = "ok" THEN resp.tasks ELSE <<>>

(***************************************************************************)
(* The task monitor: the colour and the icon a task is drawn with, by the  *)
(* state label the task registry gave it.                                  *)
(***************************************************************************)
\* variant: the case of the submitted label is missing
getTaskStateColor_noSubmitted(state) ==
  CASE state = "TASK_STATE_COMPLETED" -> "#10b981"
    [] state = "TASK_STATE_FAILED"    -> "#ef4444"
    [] state = "TASK_STATE_WORKING"   -> "#3b82f6"
    [] OTHER                          -> "#6b7280"

getTaskStateColor(state) ==
  CASE state = "TASK_STATE_COMPLETED" -> "#10b981"
    [] state = "TASK_STATE_FAILED"    -> "#ef4444"
    [] state = "TASK_STATE_WORKING"   -> "#3b82f6"
    [] state = "TASK_STATE_SUBMITTED" -> "#f59e0b"
    [] OTHER                          -> "#6b7280"

getTaskStateIcon(state) ==
  CASE state = "TASK_STATE_COMPLETED" -> "CheckCircle"
    [] state = "TASK_STATE_FAILED"    -> "AlertCircle"
    [] state = "TASK_STATE_WORKING"   -> "RefreshCw"
    [] OTHER                          -> "Clock"

(***************************************************************************)
(* AgentNetworkGraph: the mesh between the online agents.  An edge carries *)
(* the two agent ids and is animated when an exchange links them.          *)
(***************************************************************************)
\* variant: the offline agents are not filtered out
OnlineAgents_unfiltered(agentList) == agentList

OnlineAgents(agentList) == SelectSeq(agentList, LAMBDA a : a.status = "online")

\* variant: only exchanges sent by the source to the target count
hasExchange_oneWay(exchanges, sourceId, targetId) ==
  \E k \in DOMAIN exchanges :
     exchanges[k].sender_agent_id = sourceId /\ exchanges[k].receiver_agent_id = targetId

hasExchange(exchanges, sourceId, targetId) ==
  \E k \in DOMAIN exchanges :
     \/ exchanges[k].sender_agent_id = sourceId /\ exchanges[k].receiver_agent_id = targetId
     \/ exchanges[k].sender_agent_id = targetId /\ exchanges[k].receiver_agent_id = sourceId

MeshEdge(sourceId, targetId, exchanges) ==
  [id       |-> sourceId \o "-" \o targetId,
   source   |-> sourceId,
   target   |-> targetId,
   animated |-> hasExchange(exchanges, sourceId, targetId)]

\* variant: the inner loop starts at the first agent instead of at i + 1
RECURSIVE MeshLoop_fromFirst(_, _, _, _)
MeshLoop_fromFirst(online, i, j, exchanges) ==
  IF i > Len(online) THEN <<>>
  ELSE IF j > Len(online) THEN MeshLoop_fromFirst(online, i + 1, 1, exchanges)
  ELSE IF j = i THEN MeshLoop_fromFirst(online, i, j + 1, exchanges)
  ELSE <<MeshEdge(online[i].agent_id, online[j].agent_id, exchanges)>>
         \o MeshLoop_fromFirst(online, i, j + 1, exchanges)

\* the two nested loops: i over the online agents, j from i + 1
RECURSIVE MeshLoop(_, _, _, _)
MeshLoop(online, i, j, exchanges) ==
  IF i > Len(online) THEN <<>>
  ELSE IF j > Len(online) THEN MeshLoop(online, i + 1, i + 2, exchanges)
  ELSE <<MeshEdge(online[i].agent_id, online[j].agent_id, exchanges)>>
         \o MeshLoop(online, i, j + 1, exchanges)

\* the edges the graph is mounted with
initialEdges(agentList, exchanges) == MeshLoop(OnlineAgents(agentList), 1, 2, exchanges)

\* the edges the effect sets whenever agents or exchanges change
newEdges(agentList, exchanges) == MeshLoop(OnlineAgents(agentList), 1, 2, exchanges)

\* Object.values(exchangesByPort).flat(): the windows in ascending port order
RECURSIVE FlatExchanges(_, _)
FlatExchanges(byPort, ports) ==
  IF ports = {} THEN <<>>
  ELSE LET p == CHOOSE q \in ports : \A r \in ports : q <= r
       IN  byPort[p] \o FlatExchanges(byPort, ports \ {p})

Exchanges(byPort) == FlatExchanges(byPort, DOMAIN byPort)

(***************************************************************************)
(* State.                                                                  *)
(***************************************************************************)
VARIABLES
  agentConfigs,     \* the registry: a sequence of descriptors
  agents,           \* snapshot: one status per descriptor of the round
  exchangesByPort,  \* snapshot: port -> window of exchange records
  activeTasks,      \* snapshot: the task registry's tasks
  loading,          \* the flag that disables the Refresh button
  autoRefresh,      \* the auto-refresh checkbox
  newAgentPort,     \* the text of the port field of the add form
  edges,            \* the edges of the graph
  inflight,         \* rounds started and not yet published, in start order
  intervals,        \* active interval timers: the configs their callback closed over
  network,          \* environment: what each peer answers at present
  lastAdd,          \* history: what the addAgent call of the last step signalled
  published,        \* history: the round that published the current snapshot
  removed,          \* history: ports removed and not configured again
  settled           \* history: removed ports for which a later round has published

vars == <<agentConfigs, agents, exchangesByPort, activeTasks, loading, autoRefresh,
          newAgentPort, edges, inflight, intervals, network, lastAdd, published,
          removed, settled>>

\* a round: the configs its refreshAll closed over; removedSince, autoOffSeen
\* and overtaken are history, they record what happened while the round was in
\* flight (overtaken: a round started later has published)
NewRound(configs) ==
  [configs |-> configs, removedSince |-> {}, autoOffSeen |-> FALSE, overtaken |-> FALSE]

(***************************************************************************)
(* Inputs.                                                                 *)
(***************************************************************************)
\* what the user types into the port field
PortInputs == { <<"9", "0", "0", "0">>, <<"8", "0", "0", "0">> }

\* what the user may also type: a negative number, a number written with a
\* leading zero, nothing at all
RegistryInputs ==
  PortInputs \cup { <<"-", "5">>, <<"0", "9", "0", "0", "0">>, <<>> }

\* the ports that can be configured
KnownPorts ==
  Ports(DEFAULT_AGENT_CONFIGS)
    \cup {parseInt(t).n : t \in {u \in RegistryInputs : Truthy(parseInt(u))}}

\* an exchange record; confidence is kept in hundredths (82 is 0.82)
ExchangeLog(sender, receiver, confidence) ==
  [sender_agent_id |-> sender, receiver_agent_id |-> receiver, confidence |-> confidence]

\* a task of the task registry
A2ATask(id, state) == [id |-> id, state |-> state]

\* every peer reachable, reporting no id of its own; 8001 has served one request
NetworkUp ==
  [health  |-> [p \in KnownPorts |-> HealthOk("")],
   history |-> [p \in KnownPorts |->
                  IF p = 8001
                  THEN HistoryOk(<<ExchangeLog("dkmes-alpha", "agent-beta-aiml", 82)>>)
                  ELSE HistoryOk(<<>>)],
   tasks   |-> TasksOk(<<A2ATask("task-1", "TASK_STATE_WORKING")>>)]

\* no peer reachable
NetworkDown ==
  [health  |-> [p \in KnownPorts |-> HealthFail],
   history |-> [p \in KnownPorts |-> HistoryFail],
   tasks   |-> TasksFail]

Networks == {NetworkUp, NetworkDown}

InitWith(net) ==
  /\ agentConfigs = DEFAULT_AGENT_CONFIGS
  /\ agents = <<>>
  /\ exchangesByPort = <<>>
  /\ activeTasks = <<>>
  /\ loading = TRUE
  /\ autoRefresh = TRUE
  /\ newAgentPort = <<>>
  /\ edges = initialEdges(<<>>, <<>>)
  /\ inflight = <<NewRound(DEFAULT_AGENT_CONFIGS)>>
  /\ intervals = <<DEFAULT_AGENT_CONFIGS>>
  /\ network = net
  /\ lastAdd = "none"
  /\ published = NewRound(<<>>)
  /\ removed = {}
  /\ settled = {}

\* the component is mounted: the effect has started the first round and the timer
Init == \E net \in Networks : InitWith(net)

(***************************************************************************)
(* refreshAll up to its await: the round closes over the configs of the    *)
(* render it was created in and raises loading.                            *)
(***************************************************************************)
refreshAllStart(rounds, configs) == Append(rounds, NewRound(configs))

(***************************************************************************)
(* The effect on [autoRefresh, agentConfigs]: the previous run's cleanup   *)
(* clears its timer (it made one when autoRefresh was set), then           *)
(* refreshAll() is called and, with auto-refresh on, a new timer is made.  *)
(***************************************************************************)
\* variant: the cleanup clears no timer
AfterCleanup_none == intervals

AfterCleanup == IF autoRefresh /\ intervals # <<>>
                THEN SubSeq(intervals, 1, Len(intervals) - 1)
                ELSE intervals

useEffect(rounds, configs, auto) ==
  /\ Len(rounds) < MaxInFlight
  /\ inflight' = refreshAllStart(rounds, configs)
  /\ loading' = TRUE
  /\ intervals' = IF auto THEN Append(AfterCleanup, configs) ELSE AfterCleanup

(***************************************************************************)
(* Operations.                                                             *)
(***************************************************************************)
\* the Refresh button, disabled while loading
refreshNow ==
  /\ ~loading
  /\ Len(inflight) < MaxInFlight
  /\ inflight' = refreshAllStart(inflight, agentConfigs)
  /\ loading' = TRUE
  /\ lastAdd' = "none"
  /\ UNCHANGED <<agentConfigs, agents, exchangesByPort, activeTasks, autoRefresh,
                 newAgentPort, edges, intervals, network, published, removed, settled>>

\* a timer fires: refreshAll as the timer's callback closed over it
intervalTick ==
  \E k \in DOMAIN intervals :
     /\ Len(inflight) < MaxInFlight
     /\ inflight' = refreshAllStart(inflight, intervals[k])
     /\ loading' = TRUE
     /\ lastAdd' = "none"
     /\ UNCHANGED <<agentConfigs, agents, exchangesByPort, activeTasks, autoRefresh,
                    newAgentPort, edges, intervals, network, published, removed,
                    settled>>

\* variant: turning auto-refresh off abandons the rounds in flight
setAutoRefresh_cancels ==
  /\ autoRefresh' = ~autoRefresh
  /\ useEffect(IF autoRefresh THEN <<>> ELSE inflight, agentConfigs, ~autoRefresh)
  /\ lastAdd' = "none"
  /\ UNCHANGED <<agentConfigs, agents, exchangesByPort, activeTasks, newAgentPort,
                 edges, network, published, removed, settled>>

\* the auto-refresh checkbox
setAutoRefresh ==
  /\ autoRefresh' = ~autoRefresh
  /\ useEffect([k \in DOMAIN inflight |->
                  [inflight[k] EXCEPT !.autoOffSeen = @ \/ autoRefresh]],
               agentConfigs, ~autoRefresh)
  /\ lastAdd' = "none"
  /\ UNCHANGED <<agentConfigs, agents, exchangesByPort, activeTasks, newAgentPort,
                 edges, network, published, removed, settled>>

\* typing into the port field
setNewAgentPort(text) ==
  /\ text # newAgentPort
  /\ newAgentPort' = text
  /\ lastAdd' = "none"
  /\ UNCHANGED <<agentConfigs, agents, exchangesByPort, activeTasks, loading,
                 autoRefresh, edges, inflight, intervals, network, published,
                 removed, settled>>

\* the Add button: a new port is appended, anything else is left without a word
addAgent ==
  LET parsed == parseInt(newAgentPort)
      port   == parsed.n
  IN  IF Truthy(parsed) /\ ~(\E k \in DOMAIN agentConfigs : agentConfigs[k].port = port)
      THEN /\ agentConfigs' = Append(agentConfigs, NewAgentConfig(port))
           /\ newAgentPort' = <<>>
           /\ useEffect(inflight, agentConfigs', autoRefresh)
           /\ lastAdd' = "added"
           /\ removed' = removed \ {port}
           /\ settled' = settled \ {port}
           /\ UNCHANGED <<agents, exchangesByPort, activeTasks, autoRefresh, edges,
                          network, published>>
      ELSE /\ lastAdd' = "ignored"
           /\ UNCHANGED <<agentConfigs, agents, exchangesByPort, activeTasks, loading,
                          autoRefresh, newAgentPort, edges, inflight, intervals,
                          network, published, removed, settled>>

\* variant: the removal also takes the peer out of the statuses shown
removeAgent_prunesSnapshot(port) ==
  /\ \E k \in DOMAIN agents : agents[k].port = port
  /\ ~(\E k \in DOMAIN DEFAULT_AGENT_CONFIGS : DEFAULT_AGENT_CONFIGS[k].port = port)
  /\ agentConfigs' = SelectSeq(agentConfigs, LAMBDA c : c.port # port)
  /\ agents' = SelectSeq(agents, LAMBDA a : a.port # port)
  /\ useEffect([k \in DOMAIN inflight |->
                  [inflight[k] EXCEPT !.removedSince = @ \cup {port}]],
               agentConfigs', autoRefresh)
  /\ lastAdd' = "none"
  /\ removed' = removed \cup {port}
  /\ settled' = settled \ {port}
  /\ UNCHANGED <<exchangesByPort, activeTasks, autoRefresh, newAgentPort,
                 edges, network, published>>

\* variant: the Remove button is drawn on every card
removeAgent_unguarded(port) ==
  /\ \E k \in DOMAIN agents : agents[k].port = port
  /\ agentConfigs' = SelectSeq(agentConfigs, LAMBDA c : c.port # port)
  /\ useEffect([k \in DOMAIN inflight |->
                  [inflight[k] EXCEPT !.removedSince = @ \cup {port}]],
               agentConfigs', autoRefresh)
  /\ lastAdd' = "none"
  /\ removed' = removed \cup {port}
  /\ settled' = settled \ {port}
  /\ UNCHANGED <<agents, exchangesByPort, activeTasks, autoRefresh, newAgentPort,
                 edges, network, published>>

\* the Remove button of an agent card: cards are drawn for the agents of the
\* snapshot, the button only for ports that are not default ones
removeAgent(port) ==
  /\ \E k \in DOMAIN agents : agents[k].port = port
  /\ ~(\E k \in DOMAIN DEFAULT_AGENT_CONFIGS : DEFAULT_AGENT_CONFIGS[k].port = port)
  /\ agentConfigs' = SelectSeq(agentConfigs, LAMBDA c : c.port # port)
  /\ useEffect([k \in DOMAIN inflight |->
                  [inflight[k] EXCEPT !.removedSince = @ \cup {port}]],
               agentConfigs', autoRefresh)
  /\ lastAdd' = "none"
  /\ removed' = removed \cup {port}
  /\ settled' = settled \ {port}
  /\ UNCHANGED <<agents, exchangesByPort, activeTasks, autoRefresh, newAgentPort,
                 edges, network, published>>

\* variant: a failed probe rejects and its status is dropped from the results
agentResultsOf_dropFailed(configs) ==
  SelectSeq([k \in DOMAIN configs |->
               fetchAgentStatus(configs[k], network.health[configs[k].port])],
            LAMBDA a : a.status = "online")

\* Promise.all over agentConfigs.map(fetchAgentStatus): one result per config
agentResultsOf(configs) ==
  [k \in DOMAIN configs |->
     fetchAgentStatus(configs[k], network.health[configs[k].port])]

\* variant: the windows are fetched for the registry as it is at the join
exchangeResultsOf_current(configs) ==
  [k \in DOMAIN agentConfigs |->
     fetchExchanges(agentConfigs[k].port, network.history[agentConfigs[k].port])]

\* Promise.all over agentConfigs.map(fetchExchanges): one result per config
exchangeResultsOf(configs) ==
  [k \in DOMAIN configs |->
     fetchExchanges(configs[k].port, network.history[configs[k].port])]

\* the Promise.all join of a round over configs resolves once every fetch of
\* the round has resolved or rejected; no fetch is given a timeout
PromiseAll(configs) ==
  /\ \A k \in DOMAIN configs :
        /\ network.health[configs[k].port].kind # "pending"
        /\ network.history[configs[k].port].kind # "pending"
  /\ network.tasks.kind # "pending"

\* the rounds in flight once round i has published: the rounds started before
\* it are still in flight
Overtake(rounds, i) ==
  [k \in DOMAIN rounds |->
     IF k < i THEN [rounds[k] EXCEPT !.overtaken = TRUE] ELSE rounds[k]]

\* element i taken out of a sequence
RemoveAt(s, i) == SubSeq(s, 1, i - 1) \o SubSeq(s, i + 1, Len(s))

\* variant: only the statuses are set, the windows and tasks stay as they were
refreshAllPublish_agentsOnly(i) ==
  /\ PromiseAll(inflight[i].configs)
  /\ agents' = agentResultsOf(inflight[i].configs)
  /\ loading' = FALSE
  /\ edges' = newEdges(agents', Exchanges(exchangesByPort))
  /\ inflight' = RemoveAt(Overtake(inflight, i), i)
  /\ lastAdd' = "none"
  /\ published' = inflight[i]
  /\ settled' = settled \cup (removed \ inflight[i].removedSince)
  /\ UNCHANGED <<agentConfigs, exchangesByPort, activeTasks, autoRefresh,
                 newAgentPort, intervals, network, removed>>

(***************************************************************************)
(* refreshAll after its await: the last answer of round i has arrived, the *)
(* join resolves and the round sets the snapshot and lowers loading.       *)
(***************************************************************************)
refreshAllPublish(i) ==
  LET round           == inflight[i]
      configs         == round.configs
      agentResults    == agentResultsOf(configs)
      exchangeResults == exchangeResultsOf(configs)
      tasks           == fetchTasks(network.tasks)
      newExchangesByPort ==
        [p \in {exchangeResults[k].port : k \in DOMAIN exchangeResults} |->
           LET last == CHOOSE k \in DOMAIN exchangeResults :
                          /\ exchangeResults[k].port = p
                          /\ \A m \in DOMAIN exchangeResults :
                                exchangeResults[m].port = p => m <= k
           IN  exchangeResults[last].exchanges]
  IN  /\ PromiseAll(configs)
      /\ agents' = agentResults
      /\ exchangesByPort' = newExchangesByPort
      /\ activeTasks' = tasks
      /\ loading' = FALSE
      /\ edges' = newEdges(agents', Exchanges(exchangesByPort'))
      /\ inflight' = RemoveAt(Overtake(inflight, i), i)
      /\ lastAdd' = "none"
      /\ published' = round
      /\ settled' = settled \cup (removed \ round.removedSince)
      /\ UNCHANGED <<agentConfigs, autoRefresh, newAgentPort, intervals, network,
                     removed>>

\* the peers change what they answer
networkChange(net) ==
  /\ net # network
  /\ network' = net
  /\ lastAdd' = "none"
  /\ UNCHANGED <<agentConfigs, agents, exchangesByPort, activeTasks, loading,
                 autoRefresh, newAgentPort, edges, inflight, intervals, published,
                 removed, settled>>

Next ==
  \/ refreshNow
  \/ intervalTick
  \/ setAutoRefresh
  \/ \E text \in PortInputs : setNewAgentPort(text)
  \/ addAgent
  \/ \E port \in KnownPorts : removeAgent(port)
  \/ \E i \in DOMAIN inflight : refreshAllPublish(i)
  \/ \E net \in Networks : networkChange(net)

Spec == Init /\ [][Next]_vars

(***************************************************************************)
(* The rounds under every combination of probe outcomes: the peers keep    *)
(* one of the combinations while the registry and the scheduler run.       *)
(***************************************************************************)
ProbeNetworks ==
  { [NetworkUp EXCEPT !.health = h] : h \in [KnownPorts -> {HealthFail, HealthOk("")}] }

RoundInit == \E net \in ProbeNetworks : InitWith(net)

RoundNext ==
  \/ refreshNow
  \/ intervalTick
  \/ \E text \in PortInputs : setNewAgentPort(text)
  \/ addAgent
  \/ \E port \in KnownPorts : removeAgent(port)
  \/ \E i \in DOMAIN inflight : refreshAllPublish(i)

RoundSpec == RoundInit /\ [][RoundNext]_vars

(***************************************************************************)
(* The topology under the answers the default peers can give: a peer is    *)
(* unreachable, reports no id, or reports an id that another descriptor    *)
(* has as its fallback; the peers hold up to MaxRecords exchange records.  *)
(***************************************************************************)
DefaultPorts == Ports(DEFAULT_AGENT_CONFIGS)

TopologyHealth == { HealthFail, HealthOk(""), HealthOk("dkmes-alpha") }

TopologyLogs ==
  { ExchangeLog("dkmes-alpha", "agent-beta-aiml", 82),
    ExchangeLog("agent-beta-aiml", "dkmes-alpha", 82),
    ExchangeLog("dkmes-alpha", Undefined, 82),
    ExchangeLog("agent-gamma-analytics", "dkmes-alpha", 82) }

TopologyWindows == UNION { [1..n -> TopologyLogs] : n \in 0..MaxRecords }

RECURSIVE TotalLen(_, _)
TotalLen(byPort, ports) ==
  IF ports = {} THEN 0
  ELSE LET p == CHOOSE q \in ports : TRUE
       IN  Len(byPort[p]) + TotalLen(byPort, ports \ {p})

TopologyHistories ==
  { w \in [DefaultPorts -> TopologyWindows] : TotalLen(w, DefaultPorts) <= MaxRecords }

TopologyNetworks ==
  { [health  |-> [p \in KnownPorts |-> IF p \in DefaultPorts THEN h[p] ELSE HealthFail],
     history |-> [p \in KnownPorts |->
                    IF p \in DefaultPorts THEN HistoryOk(w[p]) ELSE HistoryFail],
     tasks   |-> TasksFail] :
    h \in [DefaultPorts -> TopologyHealth], w \in TopologyHistories }

TopologyInit == \E net \in TopologyNetworks : InitWith(net)

TopologyNext ==
  \/ refreshNow
  \/ intervalTick
  \/ \E i \in DOMAIN inflight : refreshAllPublish(i)

TopologySpec == TopologyInit /\ [][TopologyNext]_vars

(***************************************************************************)
(* The rounds under failing channels: 8001 reports an id of its own and    *)
(* has served one request; one channel at a time fails in one of the ways  *)
(* a fetch can fail, or a record comes with a confidence out of range, and *)
(* the peers change what they answer between and during rounds.            *)
(***************************************************************************)
NetworkReporting ==
  [NetworkUp EXCEPT
     !.health[8001]  = HealthOk("beta-live"),
     !.history[8001] = HistoryOk(<<ExchangeLog("dkmes-alpha", "beta-live", 82)>>)]

FaultNetworks ==
  {NetworkReporting, NetworkDown}
    \cup { [NetworkReporting EXCEPT !.health[8001] = h] :
             h \in {HealthFail, HealthStatus("beta-live"), HealthBadJson} }
    \cup { [NetworkReporting EXCEPT !.history[8001] = w] :
             w \in { HistoryFail, HistoryBadJson,
                     HistoryStatus(<<ExchangeLog("dkmes-alpha", "beta-live", 82)>>),
                     HistoryOk(<<ExchangeLog("dkmes-alpha", "beta-live", 150)>>),
                     HistoryOk(<<ExchangeLog("dkmes-alpha", "beta-live", 0 - 20)>>) } }
    \cup { [NetworkReporting EXCEPT !.tasks = t] :
             t \in { TasksFail, TasksBadJson,
                     TasksStatus(<<A2ATask("task-1", "TASK_STATE_WORKING")>>) } }

FaultInit == \E net \in FaultNetworks : InitWith(net)

FaultNext ==
  \/ refreshNow
  \/ intervalTick
  \/ \E i \in DOMAIN inflight : refreshAllPublish(i)
  \/ \E net \in FaultNetworks : networkChange(net)

FaultSpec == FaultInit /\ [][FaultNext]_vars

(***************************************************************************)
(* The rounds under the answers working peers can give: 8001 reports any   *)
(* of its identity fields or leaves it out, the task registry labels a     *)
(* task with a known or an unknown state, 8001 returns as many records as  *)
(* were asked for or one more.                                             *)
(***************************************************************************)
\* the limit sent with the history request
HistoryLimit == 10

TaskLabels ==
  { "TASK_STATE_SUBMITTED", "TASK_STATE_WORKING", "TASK_STATE_COMPLETED",
    "TASK_STATE_FAILED", "TASK_STATE_CANCELLED", "completed" }

AnswerNetworks ==
  { [NetworkReporting EXCEPT !.health[8001] = HealthReport(id, name, domain)] :
      id \in {"", "beta-live"}, name \in {"", "Beta Live"},
      domain \in {"", "machine-learning"} }
    \cup { [NetworkReporting EXCEPT
              !.tasks = TasksOk(<<A2ATask("task-1", label),
                                 A2ATask("task-2", "TASK_STATE_SUBMITTED")>>)] :
             label \in TaskLabels }
    \cup { [NetworkReporting EXCEPT
              !.history[8001] =
                 HistoryOk([k \in 1..n |-> ExchangeLog("dkmes-alpha", "beta-live", 82)])] :
             n \in {HistoryLimit, HistoryLimit + 1} }

AnswerInit == \E net \in AnswerNetworks : InitWith(net)

AnswerNext ==
  \/ refreshNow
  \/ intervalTick
  \/ \E i \in DOMAIN inflight : refreshAllPublish(i)
  \/ \E net \in AnswerNetworks : networkChange(net)

AnswerSpec == AnswerInit /\ [][AnswerNext]_vars

(***************************************************************************)
(* The registry under everything the port field can hold, the peers all    *)
(* reachable.                                                              *)
(***************************************************************************)
RegistryInit == InitWith(NetworkUp)

RegistryNext ==
  \/ refreshNow
  \/ intervalTick
  \/ \E text \in RegistryInputs : setNewAgentPort(text)
  \/ addAgent
  \/ \E port \in KnownPorts : removeAgent(port)
  \/ \E i \in DOMAIN inflight : refreshAllPublish(i)

RegistrySpec == RegistryInit /\ [][RegistryNext]_vars

(***************************************************************************)
(* The rounds when a channel stays silent: one health probe, one history   *)
(* fetch or the task registry never answers, or every channel answers.     *)
(* Once the last answer of a round is there, the continuation of its await *)
(* is run by the event loop: publishing is weakly fair.                    *)
(***************************************************************************)
SilentNetworks ==
  { NetworkUp,
    [NetworkUp EXCEPT !.health[8001] = HealthPending],
    [NetworkUp EXCEPT !.history[8002] = HistoryPending],
    [NetworkUp EXCEPT !.tasks = TasksPending] }

SilentInit == \E net \in SilentNetworks : InitWith(net)

SilentSpec ==
  /\ SilentInit
  /\ [][RoundNext]_vars
  /\ WF_vars(\E i \in DOMAIN inflight : refreshAllPublish(i))

(***************************************************************************)
(* Properties.                                                             *)
(***************************************************************************)
TypeOK ==
  /\ loading \in BOOLEAN
  /\ autoRefresh \in BOOLEAN
  /\ Len(inflight) <= MaxInFlight

\* C1: every published snapshot has exactly one status for each descriptor the
\* publishing round closed over at its start, in the descriptors' order, each
\* marked online or offline, whatever probes failed.
C1_OneStatusPerDescriptor ==
  /\ Len(agents) = Len(published.configs)
  /\ \A k \in DOMAIN agents :
        /\ agents[k].port = published.configs[k].port
        /\ agents[k].status \in {"online", "offline"}
  /\ \A k \in DOMAIN published.configs :
        Cardinality({m \in DOMAIN agents : agents[m].port = published.configs[k].port}) = 1

\* a round over four descriptors has published with some probes failed and
\* some not, after the registry had changed again
C1_Witness ==
  /\ Len(published.configs) = 4
  /\ published.configs # agentConfigs
  /\ \E k \in DOMAIN agents : agents[k].status = "offline"
  /\ \E k \in DOMAIN agents : agents[k].status = "online"

\* C2: at most one round is in flight at any time.
C2_AtMostOneRoundInFlight == Len(inflight) <= 1

\* C3: a manual refresh requested while a round is in flight starts no second
\* round: the Refresh button starts a round only when none is in flight.
C3_ManualRefreshCoalesced == [][refreshNow => Len(inflight) = 0]_vars

\* the agents of the snapshot that are online, by position
OnlineIndexes == {k \in DOMAIN agents : agents[k].status = "online"}

\* C4: in every snapshot each endpoint of each edge is the id of a peer that is
\* in the snapshot's agents and online there.
C4_EdgesJoinOnlinePeers ==
  \A e \in DOMAIN edges :
     \A id \in {edges[e].source, edges[e].target} :
        \E k \in DOMAIN agents : agents[k].agent_id = id /\ agents[k].status = "online"

\* a snapshot with an edge and with an offline peer
C4_Witness ==
  /\ edges # <<>>
  /\ \E k \in DOMAIN agents : agents[k].status = "offline"

\* C5: one edge for each unordered pair of online peers of the snapshot, from
\* the earlier peer to the later one: k online peers give k(k-1)/2 edges, and
\* for any two ids there are as many edges from the one to the other as there
\* are pairs of online peers carrying these ids in this order.
C5_OneEdgePerPair ==
  /\ 2 * Len(edges) = Cardinality(OnlineIndexes) * (Cardinality(OnlineIndexes) - 1)
  /\ \A p \in OnlineIndexes, q \in OnlineIndexes :
        Cardinality({e \in DOMAIN edges :
                       /\ edges[e].source = agents[p].agent_id
                       /\ edges[e].target = agents[q].agent_id})
        = Cardinality({pq \in OnlineIndexes \X OnlineIndexes :
                         /\ pq[1] < pq[2]
                         /\ agents[pq[1]].agent_id = agents[p].agent_id
                         /\ agents[pq[2]].agent_id = agents[q].agent_id})

\* three online peers with three ids and three edges
C5_Witness ==
  /\ Cardinality(OnlineIndexes) = 3
  /\ Cardinality({agents[k].agent_id : k \in OnlineIndexes}) = 3
  /\ Len(edges) = 3

\* C6: an edge is active exactly when some record of some window of the
\* snapshot has the edge's endpoints as its sender and receiver, either way.
C6_ActiveIffExchange ==
  \A e \in DOMAIN edges :
     edges[e].animated <=>
       \E p \in DOMAIN exchangesByPort :
          \E r \in DOMAIN exchangesByPort[p] :
             LET ex == exchangesByPort[p][r]
             IN  \/ /\ ex.sender_agent_id = edges[e].source
                    /\ ex.receiver_agent_id = edges[e].target
                 \/ /\ ex.sender_agent_id = edges[e].target
                    /\ ex.receiver_agent_id = edges[e].source

\* a record sent by the later peer of a pair to the earlier one has activated
\* their edge and left another edge inactive
C6_Witness ==
  /\ \E e \in DOMAIN edges :
        /\ edges[e].animated
        /\ edges[e].source = "dkmes-alpha"
        /\ edges[e].target = "agent-beta-aiml"
        /\ \A p \in DOMAIN exchangesByPort :
              \A r \in DOMAIN exchangesByPort[p] :
                 exchangesByPort[p][r].sender_agent_id # "dkmes-alpha"
  /\ \E e \in DOMAIN edges : ~edges[e].animated

\* the port field holds the port of a configured descriptor
DuplicateTyped ==
  LET parsed == parseInt(newAgentPort)
  IN  Truthy(parsed) /\ \E k \in DOMAIN agentConfigs : agentConfigs[k].port = parsed.n

\* C7: adding a port that is already configured leaves the registry as it was
\* and the caller receives a ValidationError.
C7_DuplicateAddRejected ==
  [][(addAgent /\ DuplicateTyped) =>
       (agentConfigs' = agentConfigs /\ lastAdd' = "ValidationError")]_vars

\* C8: once a port has been removed and a round started after the removal has
\* published, no snapshot has a status for the port or an edge for its id
\* while the port stays removed.
C8_RemovedPeerStaysAbsent ==
  \A p \in settled :
     /\ \A k \in DOMAIN agents : agents[k].port # p
     /\ \A e \in DOMAIN edges :
           /\ edges[e].source # NewAgentConfig(p).fallbackId
           /\ edges[e].target # NewAgentConfig(p).fallbackId

\* C9: turning auto-refresh off starts no round, and while it is off a round
\* starts only by a manual refresh, a registry mutation or turning it on.
C9_DisablingStartsNoRound ==
  [][/\ (autoRefresh /\ ~autoRefresh') => Len(inflight') = Len(inflight)
     /\ (~autoRefresh /\ Len(inflight') > Len(inflight)) =>
           \/ refreshNow
           \/ addAgent
           \/ setAutoRefresh
           \/ \E port \in KnownPorts : removeAgent(port)]_vars

\* C10: turning auto-refresh off cancels no round: every round in flight
\* before is in flight after, with the configs it closed over, and a round in
\* flight can publish whether auto-refresh is on or off.
C10_InFlightRoundSurvives ==
  /\ [][(autoRefresh /\ ~autoRefresh') =>
          /\ Len(inflight') >= Len(inflight)
          /\ \A i \in DOMAIN inflight : inflight'[i].configs = inflight[i].configs]_vars
  /\ [](\A i \in DOMAIN inflight : ENABLED refreshAllPublish(i))

\* the current snapshot was published, with auto-refresh off, by a round that
\* was in flight when auto-refresh was turned off
C10_Witness ==
  /\ published.autoOffSeen
  /\ ~autoRefresh
  /\ agents # <<>>

\* the statuses, windows and tasks a round over configs sets when the peers
\* answer as in net
StatusesFrom(configs, net) ==
  [k \in DOMAIN configs |-> fetchAgentStatus(configs[k], net.health[configs[k].port])]

WindowsFrom(configs, net) ==
  [p \in Ports(configs) |-> fetchExchanges(p, net.history[p]).exchanges]

TasksFrom(net) == fetchTasks(net.tasks)

\* C11: in every state the statuses, the windows and the tasks shown come from
\* one round: all three are what the round that published last collected from
\* one set of answers, never statuses of one round beside windows or tasks of
\* another; and a step changes none of them or sets all of them from one round.
C11_SnapshotFromOneRound ==
  /\ [](\E net \in Networks :
          /\ agents = StatusesFrom(published.configs, net)
          /\ exchangesByPort = WindowsFrom(published.configs, net)
          /\ activeTasks = TasksFrom(net))
  /\ [][\/ UNCHANGED <<agents, exchangesByPort, activeTasks>>
        \/ \E i \in DOMAIN inflight :
              /\ agents' = StatusesFrom(inflight[i].configs, network)
              /\ exchangesByPort' = WindowsFrom(inflight[i].configs, network)
              /\ activeTasks' = TasksFrom(network)]_vars

\* a complete snapshot collected while the peers were up is shown while they
\* are down and the next round is in flight
C11_Witness ==
  /\ network = NetworkDown
  /\ inflight # <<>>
  /\ \A k \in DOMAIN agents : agents[k].status = "online"
  /\ Len(agents) = 4
  /\ exchangesByPort[8001] # <<>>
  /\ activeTasks # <<>>

\* C12: every exchange record stored in a snapshot has a confidence within
\* [0,1] (0..100 hundredths): what a peer returns outside is clamped first.
C12_ConfidenceWithinBounds ==
  \A p \in DOMAIN exchangesByPort :
     \A r \in DOMAIN exchangesByPort[p] :
        exchangesByPort[p][r].confidence \in 0..100

\* the status of a descriptor whose probe failed
FallbackStatus(config) ==
  [agent_id |-> config.fallbackId, name |-> config.fallbackName,
   domain |-> config.fallbackDomain, port |-> config.port, status |-> "offline"]

\* C13: a probe that fails in any way (fetch rejects, non-success status,
\* body that does not parse) gives the round a status marked offline with the
\* descriptor's fallback id, name and domain, whatever the peer reported in
\* earlier rounds; the round gets a status for every descriptor and no error,
\* so a round in flight can always publish.
C13_FailedProbeYieldsFallback ==
  /\ [][\A i \in DOMAIN inflight :
          refreshAllPublish(i) =>
            /\ Len(agents') = Len(inflight[i].configs)
            /\ \A k \in DOMAIN inflight[i].configs :
                  network.health[inflight[i].configs[k].port].kind # "ok" =>
                    agents'[k] = FallbackStatus(inflight[i].configs[k])]_vars
  /\ [](\A k \in DOMAIN agents :
          agents[k].status = "offline" => agents[k] = FallbackStatus(published.configs[k]))
  /\ [](\A i \in DOMAIN inflight : ENABLED refreshAllPublish(i))

\* 8001 answers its probe with a non-success status and the snapshot shows it
\* offline under its fallback id, beside a peer that is online
C13_Witness ==
  /\ network.health[8001].kind = "status"
  /\ inflight = <<>>
  /\ Len(agents) = 3
  /\ agents[2] = FallbackStatus(DEFAULT_AGENT_CONFIGS[2])
  /\ agents[1].status = "online"

\* C14: a history fetch that fails in any way gives its peer an empty window
\* and no error: the round publishes, every peer whose fetch succeeded has the
\* window it answered, and every peer has the status its own probe gave.
C14_FailedHistoryYieldsEmptyWindow ==
  /\ [][\A i \in DOMAIN inflight :
          refreshAllPublish(i) =>
            /\ DOMAIN exchangesByPort' = Ports(inflight[i].configs)
            /\ \A p \in Ports(inflight[i].configs) :
                  exchangesByPort'[p] = IF network.history[p].kind = "ok"
                                        THEN network.history[p].exchanges
                                        ELSE <<>>
            /\ agents' = StatusesFrom(inflight[i].configs, network)]_vars
  /\ [](\A i \in DOMAIN inflight : ENABLED refreshAllPublish(i))

\* 8001 answers its history with a non-success status: the snapshot has an
\* empty window for it and shows it online under the id it reports
C14_Witness ==
  /\ network.history[8001].kind = "status"
  /\ network.history[8001].exchanges # <<>>
  /\ inflight = <<>>
  /\ DOMAIN exchangesByPort = DefaultPorts
  /\ exchangesByPort[8001] = <<>>
  /\ agents[2].status = "online"
  /\ agents[2].agent_id = "beta-live"

\* C15: a task-registry call that fails in any way gives the snapshot an empty
\* task list and does not hold back the round: the round publishes the
\* statuses and windows it collected.
C15_FailedTasksYieldEmptyList ==
  /\ [][\A i \in DOMAIN inflight :
          refreshAllPublish(i) =>
            /\ network.tasks.kind # "ok" => activeTasks' = <<>>
            /\ network.tasks.kind = "ok" => activeTasks' = network.tasks.tasks
            /\ agents' = StatusesFrom(inflight[i].configs, network)
            /\ exchangesByPort' = WindowsFrom(inflight[i].configs, network)]_vars
  /\ [](\A i \in DOMAIN inflight : ENABLED refreshAllPublish(i))

\* the task registry answers with a non-success status: the snapshot has no
\* task, 8001 online and its window with the record it served
C15_Witness ==
  /\ network.tasks.kind = "status"
  /\ network.tasks.tasks # <<>>
  /\ inflight = <<>>
  /\ activeTasks = <<>>
  /\ agents[2].status = "online"
  /\ exchangesByPort[8001] # <<>>

\* the ports of a sequence of descriptors or statuses, in order
PortsInOrder(s) == [k \in DOMAIN s |-> s[k].port]

\* C16: adding or removing a peer changes the registry only: the call leaves
\* the statuses, windows, tasks and edges shown as they were, the rounds in
\* flight keep the registry they started with, and the round the mutation
\* starts runs over the new registry; a snapshot always shows the peers of the
\* registry its round started with.
C16_MutationLeavesSnapshot ==
  /\ [][(addAgent \/ \E port \in KnownPorts : removeAgent(port)) =>
          /\ UNCHANGED <<agents, exchangesByPort, activeTasks, edges, published>>
          /\ \A i \in DOMAIN inflight : inflight'[i].configs = inflight[i].configs
          /\ lastAdd' # "ignored" =>
                /\ Len(inflight') = Len(inflight) + 1
                /\ inflight'[Len(inflight')].configs = agentConfigs']_vars
  /\ [](PortsInOrder(agents) = PortsInOrder(published.configs))

\* a peer has been removed from the registry and the snapshot still shows it,
\* while the round started by the removal is in flight
C16_Witness ==
  /\ removed # {}
  /\ \E k \in DOMAIN agents : agents[k].port \in removed
  /\ agentConfigs = DEFAULT_AGENT_CONFIGS
  /\ inflight # <<>>
  /\ inflight[Len(inflight)].configs = agentConfigs

\* the port numbers an address can have
ValidPorts == 1..65535

\* the port field holds something that is not a port number
MalformedTyped ==
  LET parsed == parseInt(newAgentPort)
  IN  parsed.nan \/ parsed.n \notin ValidPorts

\* C17: adding with a port field that does not hold a valid port number fails
\* with InvalidInput and leaves the registry as it was; no descriptor of the
\* registry ever has an invalid port.
C17_MalformedAddRejected ==
  /\ [](\A k \in DOMAIN agentConfigs : agentConfigs[k].port \in ValidPorts)
  /\ [][(addAgent /\ MalformedTyped) =>
          (agentConfigs' = agentConfigs /\ lastAdd' = "InvalidInput")]_vars

\* C18: whatever is added and removed, starting from the default registry, no
\* two descriptors of the registry have the same id and no two the same port.
C18_RegistryIdsUnique ==
  \A k \in DOMAIN agentConfigs, m \in DOMAIN agentConfigs :
     k # m => /\ agentConfigs[k].fallbackId # agentConfigs[m].fallbackId
              /\ agentConfigs[k].port # agentConfigs[m].port

\* two peers have been added and an add of a configured port, written with a
\* leading zero, has just been ignored
C18_Witness ==
  /\ Len(agentConfigs) = 5
  /\ agentConfigs[4].port = 0 - 5
  /\ agentConfigs[5].port = 9000
  /\ newAgentPort = <<"0", "9", "0", "0", "0">>
  /\ lastAdd = "ignored"

\* C19: a round starts over the registry as it is at that moment and its
\* snapshot shows exactly the peers of that registry, each with one status and
\* one window under its port, whatever is added or removed while the round is
\* in flight: no peer has a status without a window or a window without a
\* status.
C19_PeersWholeOrAbsent ==
  /\ [][Len(inflight') > Len(inflight) =>
          inflight'[Len(inflight')].configs = agentConfigs']_vars
  /\ [][\A i \in DOMAIN inflight :
          refreshAllPublish(i) =>
            /\ PortsInOrder(agents') = PortsInOrder(inflight[i].configs)
            /\ DOMAIN exchangesByPort' = Ports(inflight[i].configs)]_vars
  /\ [](/\ DOMAIN exchangesByPort = {agents[k].port : k \in DOMAIN agents}
        /\ \A k \in DOMAIN agents, m \in DOMAIN agents :
              agents[k].port = agents[m].port => k = m)

\* the snapshot was published by a round during which a peer was removed: it
\* shows the removed peer with its status and its window
C19_Witness ==
  /\ published.removedSince # {}
  /\ Ports(agentConfigs) = DefaultPorts
  /\ Len(agents) = 4
  /\ DOMAIN exchangesByPort = Ports(published.configs)
  /\ 9000 \in DOMAIN exchangesByPort

\* C20: the edge between two online peers is active whenever a record in the
\* window of one of them names the other as its sender or as its receiver,
\* also when the record names the other as sender and has no receiver.
C20_ActiveWhenWindowNamesPeer ==
  \A a \in OnlineIndexes, b \in OnlineIndexes :
     (/\ agents[a].agent_id # agents[b].agent_id
      /\ \E r \in DOMAIN exchangesByPort[agents[a].port] :
            LET ex == exchangesByPort[agents[a].port][r]
            IN  \/ ex.sender_agent_id = agents[b].agent_id
                \/ ex.receiver_agent_id = agents[b].agent_id)
     => \E e \in DOMAIN edges :
           /\ edges[e].animated
           /\ {edges[e].source, edges[e].target}
                = {agents[a].agent_id, agents[b].agent_id}

\* C21: every started round publishes in the end, also when one of its fetches
\* never gets an answer: the round started at mount publishes a snapshot, and
\* whenever a round is in flight a round publishes later on.
C21_StartedRoundPublishes ==
  /\ <>(published.configs # <<>>)
  /\ [](inflight # <<>> => <>(~loading))

\* C22: a probe that succeeds gives a status marked online whose id, name and
\* domain are each the value the peer reported where the field is there, and
\* the descriptor's fallback where the field is missing or empty.
C22_ReportedIdentityOrFallback ==
  [][\A i \in DOMAIN inflight :
       refreshAllPublish(i) =>
         \A k \in DOMAIN inflight[i].configs :
            LET config == inflight[i].configs[k]
                answer == network.health[config.port]
            IN  answer.kind = "ok" =>
                  /\ agents'[k].status = "online"
                  /\ agents'[k].port = config.port
                  /\ agents'[k].agent_id =
                        IF answer.agent_id = "" THEN config.fallbackId ELSE answer.agent_id
                  /\ agents'[k].name =
                        IF answer.agent_name = "" THEN config.fallbackName
                        ELSE answer.agent_name
                  /\ agents'[k].domain =
                        IF answer.domain = "" THEN config.fallbackDomain
                        ELSE answer.domain]_vars

\* 8001 reported its id and its domain and no name: the snapshot shows it
\* online with these two and the fallback name
C22_Witness ==
  /\ Len(agents) = 3
  /\ agents[2].status = "online"
  /\ agents[2].agent_id = "beta-live"
  /\ agents[2].name = DEFAULT_AGENT_CONFIGS[2].fallbackName
  /\ agents[2].domain = "machine-learning"

\* the state a task is drawn as: its colour and its icon
TaskState(label) ==
  LET drawn == <<getTaskStateColor(label), getTaskStateIcon(label)>>
  IN  CASE drawn = <<"#f59e0b", "Clock">>       -> "Submitted"
        [] drawn = <<"#3b82f6", "RefreshCw">>   -> "Working"
        [] drawn = <<"#10b981", "CheckCircle">> -> "Completed"
        [] drawn = <<"#ef4444", "AlertCircle">> -> "Failed"
        [] drawn = <<"#6b7280", "Clock">>       -> "Unknown"
        [] OTHER                                -> "none"

C24_WindowWithinLimit ==
  \A p \in DOMAIN exchangesByPort : Len(exchangesByPort[p]) <= HistoryLimit

\* C25: snapshots are published in the order their rounds started: no round
\* publishes after a round started later has published, so the snapshot shown
\* is never replaced by that of an earlier round.
C25_PublishedInStartOrder ==
  [][\A i \in DOMAIN inflight : refreshAllPublish(i) => ~inflight[i].overtaken]_vars

\* the ports the snapshot shows a status for
SnapshotPorts == {agents[k].port : k \in DOMAIN agents}

\* C26: once a snapshot shows an added peer, the peer stays in the snapshot
\* while it remains configured: no step takes a configured peer out of the
\* snapshot, whether auto-refresh is on or off and whatever round was in
\* flight when the peer was added.
C26_AddedPeerStaysPresent ==
  [][\A p \in KnownPorts :
       (p \in SnapshotPorts /\ p \in Ports(agentConfigs) /\ p \in Ports(agentConfigs'))
          => p \in {agents'[k].port : k \in DOMAIN agents'}]_vars

\* C27: loading is true exactly when a round is in flight, so the Refresh
\* button is never enabled while a started round has not published.
C27_LoadingIffRoundInFlight == loading <=> inflight # <<>>

\* C28: in every snapshot no edge joins a peer id to itself and no two edges
\* have the same pair of endpoints, whatever ids the peers report.
C28_EdgesSimple ==
  /\ \A e \in DOMAIN edges : edges[e].source # edges[e].target
  /\ \A e \in DOMAIN edges, f \in DOMAIN edges :
        {edges[e].source, edges[e].target} = {edges[f].source, edges[f].target} => e = f

\* C29: the three seeded descriptors stay in the registry, at its head and as
\* seeded, whatever is typed, added, removed or refreshed: the registry always
\* has a descriptor for each of the ports 8000, 8001 and 8002, and only one.
C29_SeededPeersStay ==
  /\ Len(agentConfigs) >= Len(DEFAULT_AGENT_CONFIGS)
  /\ \A k \in DOMAIN DEFAULT_AGENT_CONFIGS : agentConfigs[k] = DEFAULT_AGENT_CONFIGS[k]
  /\ \A k \in DOMAIN agentConfigs :
        agentConfigs[k].port \in DefaultPorts => k \in DOMAIN DEFAULT_AGENT_CONFIGS

\* two peers were added and the first of them has been removed again: the
\* seeded three and the second added peer remain
C29_Witness ==
  /\ (0 - 5) \in removed
  /\ Len(agentConfigs) = 4
  /\ agentConfigs[4].port = 9000

\* C30: at most one interval timer is active, none while auto-refresh is off,
\* and with auto-refresh on the one timer is that of the latest run of the
\* effect: it calls refreshAll over the registry as it is now.
C30_OneTimerAtMost ==
  /\ Len(intervals) <= 1
  /\ ~autoRefresh => intervals = <<>>
  /\ autoRefresh => intervals = <<agentConfigs>>

\* auto-refresh was switched off while a round was in flight and on again, a
\* peer has been added, and the one timer is active
C30_Witness ==
  /\ autoRefresh
  /\ Len(intervals) = 1
  /\ Len(agentConfigs) = 4
  /\ published.autoOffSeen

====
